---- MODULE Spec2Model ----
(***************************************************************************)
(* Change monitor of antigravity-agent (src-tauri/src/db_monitor.rs).      *)
(*                                                                         *)
(* DatabaseMonitor owns two mutex-guarded cells, is_running and last_data. *)
(* start_monitoring sets is_running and spawns a tokio task that loops:    *)
(* wait for the interval tick, read is_running (exit when false), read the *)
(* whole ItemTable (get_complete_data), and under the last_data lock diff  *)
(* the read against the stored snapshot (analyze_diff), emit               *)
(* "database-changed" when the diff has changes, and store the read.       *)
(*                                                                         *)
(* Spec      the monitor: start / stop calls, the spawned loops, and the   *)
(*           host application writing the store.                           *)
(* VersionSpec  the monitor while the host writes MaxWrites successive     *)
(*           versions of one row, so that a snapshot tells when it was     *)
(*           read.                                                         *)
(* StatusSpec  the monitor commands and the settings commands: what        *)
(*           is_database_monitoring_running answers.                       *)
(* DiffSpec  analyze_diff as a pure function over bounded JSON values.     *)
(* SnapSpec  get_complete_data followed by analyze_diff, over raw stores.  *)
(*                                                                         *)
(* Account backup and restore (antigravity_backup.rs,                      *)
(* antigravity/restore.rs, commands/account_commands.rs): a backup writes  *)
(* the rows of the store named by ALL_KEYS, and the parsed storage marker, *)
(* to <email>.json; a restore writes AGENT_STATE back and deletes          *)
(* AUTH_STATUS.                                                            *)
(*                                                                         *)
(* BackupSpec   backups of two accounts while the host writes the store.   *)
(* RestoreSpec  backups and restores of one account while the host writes  *)
(*              the store.                                                 *)
(* SwitchSpec   switch_to_antigravity_account: terminate, restore, launch. *)
(* KillSpec     kill_antigravity_processes over bounded process tables.    *)
(* LaunchSpec   start_antigravity over the outcomes of its strategies.     *)
(* PathSpec     get_antigravity_db_path over the configuration and disk.   *)
(* WatchPathSpec  the path get_complete_data opens beside the path        *)
(*              get_antigravity_db_path resolves.                          *)
(* ResetSpec    backup_and_restart_antigravity: terminate, back up the     *)
(*              logged-in account, clear, launch.                          *)
(* RaceSpec     backup_and_restart_antigravity of the logged-in account    *)
(*              while switch_to_antigravity_account to another account     *)
(*              runs: the two commands' steps interleave.                  *)
(***************************************************************************)
EXTENDS Integers, Sequences, FiniteSets, TLC

\* ------------------------------------------------------------------ bounds

\* Loop tasks that may be alive at once (start_monitoring beyond it is cut).
MaxLoops == 2

\* Numbers 1..MaxVal are the parsed leaf values of the diff inputs.
MaxVal == 3

\* system.processes() holds at most MaxProcs processes.
MaxProcs == 3

\* get_antigravity_linux_paths() holds MaxCands candidate paths.
MaxCands == 2

\* The host application rewrites the monitored row MaxWrites times.
MaxWrites == 2

\* ------------------------------------------------------- serde_json::Value

Null == <<"Null">>
Num(n) == <<"Number", n>>
Str(s) == <<"String", s>>
Obj(f) == <<"Object", f>>

IsNull(v) == v[1] = "Null"
IsObject(v) == v[1] = "Object"

\* Option<T>::None of last_data, and of the bookkeeping below.
None == <<"None">>

Some(x) == <<"Some", x>>

\* serde_json::Map iterates its keys in sorted order; KeyOrder is that order
\* over the keys of the model.
KeyOrder == <<"A", "B", "C">>

Keys == {KeyOrder[i] : i \in 1..Len(KeyOrder)}

\* The rows of ItemTable in a monitored store: key -> raw string.
StoreKeys == {"A"}

RawVals == {"1", "x"}

\* serde_json::from_str on the raw strings of the model: "1", "2", "3" are
\* JSON numbers, " 1" is the number 1 after white space, "\"x\"" is the JSON
\* string x, "{}" is the empty object and "{\"email\":\"a@x\"}" an object with
\* one member; "x" and "y" are not JSON.
from_str(raw) ==
    CASE raw = "1" -> <<"Ok", Num(1)>>
      [] raw = "{}" -> <<"Ok", Obj(<<>>)>>
      [] raw = "{\"email\":\"a@x\"}" -> <<"Ok", Obj("email" :> Str("a@x"))>>
      [] raw = " 1" -> <<"Ok", Num(1)>>
      [] raw = "\"x\"" -> <<"Ok", Str("x")>>
      [] raw = "2" -> <<"Ok", Num(2)>>
      [] raw = "3" -> <<"Ok", Num(3)>>
      [] OTHER -> <<"Err">>

\* serde_json::to_string on the scalar values of the model.
to_string(v) ==
    CASE v[1] = "Number" -> ToString(v[2])
      [] v[1] = "String" -> "\"" \o v[2] \o "\""
      [] OTHER -> "null"

\* The store file: absent, a file without an ItemTable (what
\* Connection::open creates when the file is absent), or a table of rows.
NoFile == <<"NoFile">>

NoTable == <<"NoTable">>

Rows(st) == IF st[1] = "Table" THEN st[2] ELSE <<>>

Table(rows) == <<"Table", rows>>

Stores ==
    {NoFile} \cup
    {Table(rows) : rows \in UNION {[d -> RawVals] : d \in SUBSET StoreKeys}}

\* Mutant: the rows are kept as their raw strings, never parsed.
get_complete_data_Unparsed(st) ==
    IF st = NoFile
    THEN Obj(<<>>)
    ELSE Obj([k \in DOMAIN st[2] |-> Str(st[2][k])])

\* get_complete_data when no rusqlite call fails: an absent file gives the
\* empty object; each row is parsed, and kept as the raw string when it does
\* not parse.
get_complete_data(st) ==
    IF st = NoFile
    THEN Obj(<<>>)
    ELSE Obj([k \in DOMAIN st[2] |->
                 LET parsed == from_str(st[2][k])
                 IN IF parsed[1] = "Ok" THEN parsed[2] ELSE Str(st[2][k])])

\* ------------------------------------------------------------ analyze_diff

\* Mutant: the first loop reports the added keys and never compares values.
NewKeyEntries_AddedOnly(old_obj, new_obj) ==
    LET hit == SelectSeq(KeyOrder,
                   LAMBDA k : k \in DOMAIN new_obj /\ k \notin DOMAIN old_obj)
    IN [i \in 1..Len(hit) |-> hit[i] \o ": added"]

\* Mutant: the first loop reports every key both hold as changed, without
\* comparing the values.
NewKeyEntries_NoCompare(old_obj, new_obj) ==
    LET hit == SelectSeq(KeyOrder, LAMBDA k : k \in DOMAIN new_obj)
    IN [i \in 1..Len(hit) |->
           IF hit[i] \in DOMAIN old_obj
           THEN hit[i] \o ": changed"
           ELSE hit[i] \o ": added"]

\* First loop of analyze_diff: the keys of new, in order; "changed" when old
\* holds a different value, "added" when old does not hold the key.
NewKeyEntries(old_obj, new_obj) ==
    LET hit == SelectSeq(KeyOrder,
                   LAMBDA k : /\ k \in DOMAIN new_obj
                              /\ \/ k \notin DOMAIN old_obj
                                 \/ old_obj[k] # new_obj[k])
    IN [i \in 1..Len(hit) |->
           IF hit[i] \in DOMAIN old_obj
           THEN hit[i] \o ": changed"
           ELSE hit[i] \o ": added"]

\* Mutant: the second loop walks the keys of new, so it never finds one that
\* new does not hold.
RemovedEntries_OverNew(old_obj, new_obj) ==
    LET hit == SelectSeq(KeyOrder,
                   LAMBDA k : k \in DOMAIN new_obj /\ k \notin DOMAIN new_obj)
    IN [i \in 1..Len(hit) |-> hit[i] \o ": removed"]

\* Second loop of analyze_diff: the keys of old that new does not hold.
RemovedEntries(old_obj, new_obj) ==
    LET hit == SelectSeq(KeyOrder,
                   LAMBDA k : k \in DOMAIN old_obj /\ k \notin DOMAIN new_obj)
    IN [i \in 1..Len(hit) |-> hit[i] \o ": removed"]

\* The match of analyze_diff on (old, new).
ChangedFields(old, new) ==
    CASE IsObject(old) /\ IsObject(new) ->
             NewKeyEntries(old[2], new[2]) \o RemovedEntries(old[2], new[2])
      [] IsNull(old) /\ IsObject(new) -> <<"data: added">>
      [] IsObject(old) /\ IsNull(new) -> <<"data: removed">>
      [] IsNull(old) /\ IsNull(new) -> <<>>
      [] OTHER -> <<"data: structure_changed">>

\* Mutant: has_changes is set only for more than one entry.
HasChanges_OffByOne(changed_fields) == Len(changed_fields) > 1

\* has_changes = !changed_fields.is_empty()
HasChanges(changed_fields) == changed_fields # <<>>

Summary(has_changes, changed_fields) ==
    IF has_changes
    THEN ToString(Len(changed_fields)) \o " fields changed"
    ELSE "No changes"

analyze_diff(old, new) ==
    LET changed_fields == ChangedFields(old, new)
        has_changes == HasChanges(changed_fields)
    IN [has_changes |-> has_changes,
        changed_fields |-> changed_fields,
        summary |-> Summary(has_changes, changed_fields)]

\* ------------------------------------------------------------------- state

VARIABLES
    is_running,   \* DatabaseMonitor.is_running
    last_data,    \* DatabaseMonitor.last_data: None or the stored snapshot
    store,        \* the state.vscdb file of the host application
    pc,           \* per loop task: "idle" (not spawned or exited), "tick",
                  \* "read", "update"
    new_data,     \* per loop task: the snapshot its get_complete_data returned
    stopPending,  \* per loop task: stop_monitoring was called since the
                  \* task's last check of is_running
    tickLog,      \* what the most recent tick body did
    dOld, dNew,   \* DiffSpec: the inputs of analyze_diff
    dFwd, dRev,   \* DiffSpec: None, then Some of analyze_diff(dOld, dNew) and
                  \* of analyze_diff(dNew, dOld)
    rOld, rNew,   \* SnapSpec: the store at two consecutive reads
    rDiff,        \* SnapSpec: None, then Some of the diff of the two snapshots
    files,        \* the antigravity-accounts directory: file name -> content
    lastBackup,   \* per email: None, or Some of the document and the store
                  \* rows of its most recent backup that returned Ok
    opLog,        \* the most recent backup, restore or host write
    swPc,         \* switch_to_antigravity_account: the step it is at
    swTrace,      \* the steps and store writes it has made, in order
    swResult,     \* None, or what it returned
    hostRunning,  \* an Antigravity process is running
    fnIn,         \* KillSpec, LaunchSpec, PathSpec: the input of the function;
                  \* StatusSpec: the AppSettings of AppSettingsManager
    fnOut,        \* None, then Some of what the function returned
    rsPc,         \* backup_and_restart_antigravity: the step it is at
    rsTrace,      \* the steps it has made, in order
    rsEmail,      \* None, or Some of the email found in the auth info
    rsBackup,     \* backup_info: None, or Some of <<backup_name, backup_action>>
    rsResult      \* None, or what it returned

monitorVars == <<is_running, last_data, store, pc, new_data, stopPending, tickLog>>

diffVars == <<dOld, dNew, dFwd, dRev>>

snapVars == <<rOld, rNew, rDiff>>

\* What the monitor's actions leave alone.
acctVars == <<files, lastBackup, opLog>>

swVars == <<swPc, swTrace, swResult, hostRunning>>

fnVars == <<fnIn, fnOut>>

rsVars == <<rsPc, rsTrace, rsEmail, rsBackup, rsResult>>

restVars == <<diffVars, snapVars, acctVars, swVars, fnVars, rsVars>>

vars == <<monitorVars, restVars>>

Loops == 1..MaxLoops

NoTick == [kind |-> "none", prev |-> None, read |-> None, event |-> None, emit_ok |-> FALSE]

\* DatabaseMonitor::new, before any command.
MonitorIdle ==
    /\ is_running = FALSE
    /\ last_data = None
    /\ pc = [t \in Loops |-> "idle"]
    /\ new_data = [t \in Loops |-> None]
    /\ stopPending = [t \in Loops |-> FALSE]
    /\ tickLog = NoTick

\* The store is in any state when the monitor is created.
MonitorInit ==
    /\ MonitorIdle
    /\ store \in Stores

DiffIdle ==
    /\ dOld = None
    /\ dNew = None
    /\ dFwd = None
    /\ dRev = None

SnapIdle ==
    /\ rOld = None
    /\ rNew = None
    /\ rDiff = None

Emails == {"a@x", "b@x"}

NoOp == [kind |-> "none", email |-> "", ok |-> FALSE, pre |-> NoFile,
         count |-> 0, marker_ok |-> FALSE]

\* No backup file yet, nothing done.
AcctIdle ==
    /\ files = <<>>
    /\ lastBackup = [e \in Emails |-> None]
    /\ opLog = NoOp

\* No switch workflow invoked.
SwitchIdle ==
    /\ swPc = "idle"
    /\ swTrace = <<>>
    /\ swResult = None
    /\ hostRunning = FALSE

\* No function applied.
FnIdle ==
    /\ fnIn = None
    /\ fnOut = None

\* No reset workflow invoked.
ResetIdle ==
    /\ rsPc = "idle"
    /\ rsTrace = <<>>
    /\ rsEmail = None
    /\ rsBackup = None
    /\ rsResult = None

Init ==
    /\ MonitorInit
    /\ DiffIdle
    /\ SnapIdle
    /\ AcctIdle
    /\ SwitchIdle
    /\ FnIdle
    /\ ResetIdle

\* ----------------------------------------------------------------- actions

\* start_monitoring: set the flag, spawn a loop task, return Ok. The task's
\* first interval tick is immediate.
start_monitoring ==
    /\ \E t \in Loops :
          /\ pc[t] = "idle"
          /\ \A u \in Loops : u < t => pc[u] # "idle"
          /\ pc' = [pc EXCEPT ![t] = "tick"]
    /\ is_running' = TRUE
    /\ UNCHANGED <<last_data, store, new_data, stopPending, tickLog, restVars>>

\* stop_monitoring: clear the flag.
stop_monitoring ==
    /\ is_running' = FALSE
    /\ stopPending' = [t \in Loops |-> pc[t] # "idle"]
    /\ UNCHANGED <<last_data, store, pc, new_data, tickLog, restVars>>

\* The loop's check of the flag after interval.tick(): break when false.
TickCheck(t) ==
    /\ pc[t] = "tick"
    /\ pc' = [pc EXCEPT ![t] = IF is_running THEN "read" ELSE "idle"]
    /\ stopPending' = [stopPending EXCEPT ![t] = FALSE]
    /\ UNCHANGED <<is_running, last_data, store, new_data, tickLog, restVars>>

\* get_complete_data returns Ok(new_data).
ReadOk(t) ==
    /\ pc[t] = "read"
    /\ new_data' = [new_data EXCEPT ![t] = get_complete_data(store)]
    /\ pc' = [pc EXCEPT ![t] = "update"]
    /\ UNCHANGED <<is_running, last_data, store, stopPending, tickLog, restVars>>

\* Mutant: a failed read is taken for an emptied store and clears the stored
\* snapshot.
ReadErr_ResetsPrevious(t) ==
    /\ pc[t] = "read"
    /\ store # NoFile
    /\ pc' = [pc EXCEPT ![t] = "tick"]
    /\ last_data' = None
    /\ tickLog' = [kind |-> "err", prev |-> last_data, read |-> None,
                   event |-> None, emit_ok |-> FALSE]
    /\ UNCHANGED <<is_running, store, new_data, stopPending, restVars>>

\* Mutant: the file is opened without the exists() check, so a missing file
\* fails the read.
ReadErr_OnMissingFile(t) ==
    /\ pc[t] = "read"
    /\ pc' = [pc EXCEPT ![t] = "tick"]
    /\ tickLog' = [kind |-> "err", prev |-> last_data, read |-> None,
                   event |-> None, emit_ok |-> FALSE]
    /\ UNCHANGED <<is_running, last_data, store, new_data, stopPending, restVars>>

\* get_complete_data returns Err (a rusqlite call failed on an existing
\* file): the Err arm logs, and the loop goes to its next tick.
ReadErr(t) ==
    /\ pc[t] = "read"
    /\ store # NoFile
    /\ pc' = [pc EXCEPT ![t] = "tick"]
    /\ tickLog' = [kind |-> "err", prev |-> last_data, read |-> None,
                   event |-> None, emit_ok |-> FALSE]
    /\ UNCHANGED <<is_running, last_data, store, new_data, stopPending, restVars>>

\* Mutant: the event is emitted whenever a previous snapshot exists, whatever
\* the diff says.
Update_EmitsUnconditionally(t) ==
    /\ pc[t] = "update"
    /\ LET diff == analyze_diff(last_data, new_data[t])
           emits == last_data # None
       IN \E ok \in (IF emits THEN BOOLEAN ELSE {FALSE}) :
             tickLog' = [kind |-> "ok", prev |-> last_data, read |-> new_data[t],
                         event |-> IF emits
                                   THEN <<"Event", new_data[t], last_data, diff>>
                                   ELSE None,
                         emit_ok |-> ok]
    /\ last_data' = new_data[t]
    /\ new_data' = [new_data EXCEPT ![t] = None]
    /\ pc' = [pc EXCEPT ![t] = "tick"]
    /\ UNCHANGED <<is_running, store, stopPending, restVars>>

\* Mutant: a failed emit leaves the tick before the read is stored.
Update_SkipsStoreOnEmitFailure(t) ==
    /\ pc[t] = "update"
    /\ LET diff == analyze_diff(last_data, new_data[t])
           emits == last_data # None /\ diff.has_changes
       IN \E ok \in (IF emits THEN BOOLEAN ELSE {FALSE}) :
             /\ tickLog' = [kind |-> "ok", prev |-> last_data, read |-> new_data[t],
                            event |-> IF emits
                                      THEN <<"Event", new_data[t], last_data, diff>>
                                      ELSE None,
                            emit_ok |-> ok]
             /\ last_data' = IF emits /\ ~ok THEN last_data ELSE new_data[t]
    /\ new_data' = [new_data EXCEPT ![t] = None]
    /\ pc' = [pc EXCEPT ![t] = "tick"]
    /\ UNCHANGED <<is_running, store, stopPending, restVars>>

\* The Ok arm, under the last_data lock: diff against the stored snapshot
\* when there is one, emit when the diff has changes, store the read.
Update(t) ==
    /\ pc[t] = "update"
    /\ LET diff == analyze_diff(last_data, new_data[t])
           emits == last_data # None /\ diff.has_changes
       IN \E ok \in (IF emits THEN BOOLEAN ELSE {FALSE}) :
             tickLog' = [kind |-> "ok", prev |-> last_data, read |-> new_data[t],
                         event |-> IF emits
                                   THEN <<"Event", new_data[t], last_data, diff>>
                                   ELSE None,
                         emit_ok |-> ok]
    /\ last_data' = new_data[t]
    /\ new_data' = [new_data EXCEPT ![t] = None]
    /\ pc' = [pc EXCEPT ![t] = "tick"]
    /\ UNCHANGED <<is_running, store, stopPending, restVars>>

\* The host application (or a workflow of this program) rewrites the store.
StoreWrite ==
    /\ store' \in Stores \ {store}
    /\ UNCHANGED <<is_running, last_data, pc, new_data, stopPending, tickLog, restVars>>

Next ==
    \/ start_monitoring
    \/ stop_monitoring
    \/ \E t \in Loops : TickCheck(t)
    \/ \E t \in Loops : ReadOk(t)
    \/ \E t \in Loops : ReadErr(t)
    \/ \E t \in Loops : Update(t)
    \/ StoreWrite

Spec == Init /\ [][Next]_vars

\* ------------------------------------------------------------- VersionSpec
\* The store whose one row holds the number n: the host application's n-th
\* version of it.
Version(n) == Table("A" :> ToString(n))

Versions == 1..(MaxWrites + 1)

\* The host application writes the next version of the row.
HostAdvance ==
    /\ \E n \in 1..MaxWrites :
          /\ store = Version(n)
          /\ store' = Version(n + 1)
    /\ UNCHANGED <<is_running, last_data, pc, new_data, stopPending, tickLog, restVars>>

VersionInit ==
    /\ MonitorIdle
    /\ store = Version(1)
    /\ DiffIdle
    /\ SnapIdle
    /\ AcctIdle
    /\ SwitchIdle
    /\ FnIdle
    /\ ResetIdle

VersionNext ==
    \/ start_monitoring
    \/ stop_monitoring
    \/ \E t \in Loops : TickCheck(t)
    \/ \E t \in Loops : ReadOk(t)
    \/ \E t \in Loops : ReadErr(t)
    \/ \E t \in Loops : Update(t)
    \/ HostAdvance

VersionSpec == VersionInit /\ [][VersionNext]_vars

\* -------------------------------------------------------------- StatusSpec
\* AppSettings, as far as the monitor commands read it.  fnIn holds the
\* settings of the AppSettingsManager, fnOut what the latest
\* is_database_monitoring_running returned.
AppSettings == [db_monitoring_enabled : BOOLEAN]

\* save_db_monitoring_state(enabled): update_settings assigns the field
\* before it writes the file, so the field changes whether or not the write
\* succeeds.
save_db_monitoring_state ==
    /\ \E enabled \in BOOLEAN :
          fnIn' = [fnIn EXCEPT !.db_monitoring_enabled = enabled]
    /\ UNCHANGED <<fnOut, monitorVars, diffVars, snapVars, acctVars, swVars, rsVars>>

\* is_database_monitoring_running: Ok(settings.db_monitoring_enabled).
is_database_monitoring_running ==
    /\ fnOut' = Some(fnIn.db_monitoring_enabled)
    /\ UNCHANGED <<fnIn, monitorVars, diffVars, snapVars, acctVars, swVars, rsVars>>

\* AppSettingsManager::new loads the settings from the file, or the default.
StatusInit ==
    /\ MonitorIdle
    /\ store = NoFile
    /\ DiffIdle
    /\ SnapIdle
    /\ AcctIdle
    /\ SwitchIdle
    /\ fnIn \in AppSettings
    /\ fnOut = None
    /\ ResetIdle

\* start_database_monitoring and stop_database_monitoring call
\* start_monitoring and stop_monitoring and touch nothing else.
StatusNext ==
    \/ start_monitoring
    \/ stop_monitoring
    \/ \E t \in Loops : TickCheck(t)
    \/ \E t \in Loops : ReadOk(t)
    \/ \E t \in Loops : Update(t)
    \/ save_db_monitoring_state
    \/ is_database_monitoring_running

StatusSpec == StatusInit /\ [][StatusNext]_vars

\* ---------------------------------------------------------------- DiffSpec

\* Parsed values a row may hold: the numbers, and a raw string kept as is.
Leafs == {Num(n) : n \in 1..MaxVal} \cup {Str("x")}

Objects == {Obj(f) : f \in UNION {[d -> Leafs] : d \in SUBSET Keys}}

\* The arguments analyze_diff accepts: any two serde_json values.
DiffInputs == Objects \cup {Null, Str("x")}

DiffInit ==
    /\ MonitorInit
    /\ store = NoFile
    /\ dOld \in DiffInputs
    /\ dNew \in DiffInputs
    /\ dFwd = None
    /\ dRev = None
    /\ SnapIdle
    /\ AcctIdle
    /\ SwitchIdle
    /\ FnIdle
    /\ ResetIdle

\* One call of analyze_diff in each direction.
DiffApply ==
    /\ dFwd = None
    /\ dFwd' = Some(analyze_diff(dOld, dNew))
    /\ dRev' = Some(analyze_diff(dNew, dOld))
    /\ UNCHANGED <<dOld, dNew, monitorVars, snapVars, acctVars, swVars, fnVars, rsVars>>

DiffNext == DiffApply

DiffSpec == DiffInit /\ [][DiffNext]_vars

\* ---------------------------------------------------------------- SnapSpec

\* Rows of the stores SnapSpec reads.
SnapKeys == {"A", "B"}

SnapRaws == {"1", " 1", "2", "\"x\"", "x", "y"}

SnapStores ==
    {NoFile} \cup
    {Table(rows) : rows \in UNION {[d -> SnapRaws] : d \in SUBSET SnapKeys}}

SnapInit ==
    /\ MonitorInit
    /\ store = NoFile
    /\ DiffIdle
    /\ rOld \in SnapStores
    /\ rNew \in SnapStores
    /\ rDiff = None
    /\ AcctIdle
    /\ SwitchIdle
    /\ FnIdle
    /\ ResetIdle

\* Two consecutive ticks of the loop: the first read is stored, the second
\* is diffed against it.
SnapApply ==
    /\ rDiff = None
    /\ rDiff' = Some(analyze_diff(get_complete_data(rOld), get_complete_data(rNew)))
    /\ UNCHANGED <<rOld, rNew, monitorVars, diffVars, acctVars, swVars, fnVars, rsVars>>

SnapNext == SnapApply

SnapSpec == SnapInit /\ [][SnapNext]_vars

\* ------------------------------------------------- account store and files
\* constants::database.  AGENT_STATE and AUTH_STATUS are named by the
\* comments of restore.rs, the two markers by those of antigravity_backup.rs.
AGENT_STATE == "jetskiStateSync.agentManagerInitState"

AUTH_STATUS == "antigravityAuthStatus"

IS_NEW_STORAGE_MARKER == "__$__isNewStorageMarker"

TARGET_STORAGE_MARKER == "__$__targetStorageMarker"

\* The allow-listed field names a backup copies.
ALL_KEYS == <<AGENT_STATE, AUTH_STATUS, IS_NEW_STORAGE_MARKER>>

AllKeySet == {ALL_KEYS[i] : i \in 1..Len(ALL_KEYS)}

\* A backup file holds a pretty-printed document, or what a write that failed
\* after the file was created and truncated left of one.
Json(doc) == <<"Json", doc>>

Truncated == <<"Truncated">>

\* backup_dir.join(format!("{}.json", backup_name)), backup_name = email.
BackupFile(email) == email \o ".json"

\* query_row(..).optional().unwrap_or(None): the row's value; None when the
\* row is absent, and also when the query fails.
QueryValue(st, key, read_ok) ==
    IF key \in DOMAIN Rows(st) /\ read_ok THEN Some(Rows(st)[key]) ELSE None

\* The loop over ALL_KEYS: each value found is kept as a raw string.
BackupFields(st, failed) ==
    [k \in {j \in AllKeySet : QueryValue(st, j, j \notin failed) # None} |->
        Str(Rows(st)[k])]

\* The storage marker is parsed, and kept only when it parses.
BackupMarker_Raw(st, read_ok) ==
    LET m == QueryValue(st, TARGET_STORAGE_MARKER, read_ok)
    IN  IF m # None THEN TARGET_STORAGE_MARKER :> Str(m[2]) ELSE <<>>

BackupMarker(st, read_ok) ==
    LET m == QueryValue(st, TARGET_STORAGE_MARKER, read_ok)
    IN  IF m # None /\ from_str(m[2])[1] = "Ok"
        THEN TARGET_STORAGE_MARKER :> from_str(m[2])[2]
        ELSE <<>>

\* data_map when it is serialized.  The clock is not modelled: every backup
\* reads the same instant.
BackupDocument(email, st, failed, marker_ok) ==
    ("backup_time" :> Str("now"))
    @@ ("account_email" :> Str(email))
    @@ BackupMarker(st, marker_ok)
    @@ BackupFields(st, failed)

\* fs::write creates or truncates the file, then writes the content.
WriteOutcomes == {"ok", "create_failed", "write_failed"}

fs_write(fs, name, content, outcome) ==
    CASE outcome = "ok" -> (name :> content) @@ fs
      [] outcome = "write_failed" -> (name :> Truncated) @@ fs
      [] OTHER -> fs

\* What stops an operation before it reads or writes the store:
\* fs::create_dir_all, get_antigravity_db_path or Connection::open failing.
EarlyOutcomes == {"ok", "create_dir_failed", "no_db_path", "open_failed"}

Log(kind, email, ok, pre, count, marker_ok) ==
    [kind |-> kind, email |-> email, ok |-> ok, pre |-> pre,
     count |-> count, marker_ok |-> marker_ok]

\* smart_backup_antigravity_account(email).  A query of an absent row gives
\* None whether it fails or not, so only queries of present rows may fail.
smart_backup_antigravity_account(e) ==
    \E early \in EarlyOutcomes, marker_ok \in BOOLEAN,
       failed \in SUBSET (AllKeySet \cap DOMAIN Rows(store)),
       outcome \in WriteOutcomes :
        LET reaches == early = "ok" /\ store # NoFile
            doc == BackupDocument(e, store, failed, marker_ok)
            ok == reaches /\ outcome = "ok"
        IN  /\ files' = IF reaches
                        THEN fs_write(files, BackupFile(e), Json(doc), outcome)
                        ELSE files
            /\ lastBackup' = IF ok
                             THEN [lastBackup EXCEPT ![e] = Some(<<doc, Rows(store)>>)]
                             ELSE lastBackup
            /\ opLog' = Log("backup", e, ok, store, 0, marker_ok)

\* The backup command on its own.
Backup(e) ==
    /\ smart_backup_antigravity_account(e)
    /\ UNCHANGED <<monitorVars, diffVars, snapVars, swVars, fnVars, rsVars>>

\* The host application writes the store.
HostWrite(S) ==
    /\ store' \in S \ {store}
    /\ opLog' = Log("write", "", TRUE, NoFile, 0, FALSE)
    /\ UNCHANGED <<is_running, last_data, pc, new_data, stopPending, tickLog>>
    /\ UNCHANGED <<diffVars, snapVars, files, lastBackup, swVars, fnVars, rsVars>>

\* -------------------------------------------------------------- BackupSpec
AcctStores(agent, auth, isnew, marker) ==
    {NoFile, NoTable} \cup
    {Table(a @@ b @@ c @@ d) :
        a \in {<<>>} \cup {AGENT_STATE :> v : v \in agent},
        b \in {<<>>} \cup {AUTH_STATUS :> v : v \in auth},
        c \in {<<>>} \cup {IS_NEW_STORAGE_MARKER :> v : v \in isnew},
        d \in {<<>>} \cup {TARGET_STORAGE_MARKER :> v : v \in marker}}

BackupStores == AcctStores({"1"}, {}, {}, {" 1", "x"})

BackupInit ==
    /\ MonitorIdle
    /\ store \in BackupStores
    /\ DiffIdle
    /\ SnapIdle
    /\ AcctIdle
    /\ SwitchIdle
    /\ FnIdle
    /\ ResetIdle

BackupNext ==
    \/ \E e \in Emails : Backup(e)
    \/ HostWrite(BackupStores)

BackupSpec == BackupInit /\ [][BackupNext]_vars

\* ------------------------------------------------------------- RestoreSpec
\* The closure restore_db on state.vscdb: INSERT OR REPLACE of AGENT_STATE
\* when the document holds it as a string, then DELETE of AUTH_STATUS.  A
\* failure of either statement is logged and ignored; both fail on a file
\* without an ItemTable.  Connection::open creates the file when it is absent.
restore_db_KeepsExisting(st, account_data, open_ok, insert_ok, delete_ok) ==
    IF ~open_ok
    THEN [ok |-> FALSE, count |-> 0, store |-> st, msg |-> "open failed"]
    ELSE
        LET opened == IF st = NoFile THEN NoTable ELSE st
            has == /\ AGENT_STATE \in DOMAIN account_data
                   /\ account_data[AGENT_STATE][1] = "String"
            written == has /\ opened[1] = "Table" /\ insert_ok
            rows1 == IF written
                     THEN Rows(opened) @@ (AGENT_STATE :> account_data[AGENT_STATE][2])
                     ELSE Rows(opened)
            deleted == opened[1] = "Table" /\ delete_ok
            rows2 == IF deleted
                     THEN [k \in DOMAIN rows1 \ {AUTH_STATUS} |-> rows1[k]]
                     ELSE rows1
        IN  [ok |-> TRUE,
             count |-> IF written THEN 1 ELSE 0,
             store |-> IF opened[1] = "Table" THEN Table(rows2) ELSE opened,
             msg |-> "restored"]

\* Mutant: the DELETE has no WHERE clause and empties the table.
restore_db_DeletesAll(st, account_data, open_ok, insert_ok, delete_ok) ==
    IF ~open_ok
    THEN [ok |-> FALSE, count |-> 0, store |-> st, msg |-> "open failed"]
    ELSE
        LET opened == IF st = NoFile THEN NoTable ELSE st
            has == /\ AGENT_STATE \in DOMAIN account_data
                   /\ account_data[AGENT_STATE][1] = "String"
            written == has /\ opened[1] = "Table" /\ insert_ok
            rows1 == IF written
                     THEN (AGENT_STATE :> account_data[AGENT_STATE][2]) @@ Rows(opened)
                     ELSE Rows(opened)
            deleted == opened[1] = "Table" /\ delete_ok
            rows2 == IF deleted THEN <<>> ELSE rows1
        IN  [ok |-> TRUE,
             count |-> IF written THEN 1 ELSE 0,
             store |-> IF opened[1] = "Table" THEN Table(rows2) ELSE opened,
             msg |-> "restored"]

restore_db(st, account_data, open_ok, insert_ok, delete_ok) ==
    IF ~open_ok
    THEN [ok |-> FALSE, count |-> 0, store |-> st, msg |-> "open failed"]
    ELSE
        LET opened == IF st = NoFile THEN NoTable ELSE st
            has == /\ AGENT_STATE \in DOMAIN account_data
                   /\ account_data[AGENT_STATE][1] = "String"
            written == has /\ opened[1] = "Table" /\ insert_ok
            rows1 == IF written
                     THEN (AGENT_STATE :> account_data[AGENT_STATE][2]) @@ Rows(opened)
                     ELSE Rows(opened)
            deleted == opened[1] = "Table" /\ delete_ok
            rows2 == IF deleted
                     THEN [k \in DOMAIN rows1 \ {AUTH_STATUS} |-> rows1[k]]
                     ELSE rows1
        IN  [ok |-> TRUE,
             count |-> IF written THEN 1 ELSE 0,
             store |-> IF opened[1] = "Table" THEN Table(rows2) ELSE opened,
             msg |-> "restored"]

\* An Err result; the store is left as it was.
Failed(st, msg) == [ok |-> FALSE, count |-> 0, store |-> st, msg |-> msg]

\* save_antigravity_account_to_file(account_file_path), on state.vscdb.  The
\* copy state.vscdb.backup it also restores is not part of the state.  The
\* message of a missing file is the code's, in English, with the file's path.
save_antigravity_account_to_file_Lenient(fs, name, st, read_ok, early, insert_ok, delete_ok) ==
    IF name \notin DOMAIN fs
    THEN Failed(st, "account file does not exist: " \o name)
    ELSE IF ~read_ok
    THEN Failed(st, "read failed")
    ELSE IF early \in {"no_db_path", "create_dir_failed"}
    THEN Failed(st, early)
    ELSE restore_db(st, IF fs[name][1] = "Json" THEN fs[name][2] ELSE <<>>,
                    early # "open_failed", insert_ok, delete_ok)

save_antigravity_account_to_file(fs, name, st, read_ok, early, insert_ok, delete_ok) ==
    IF name \notin DOMAIN fs
    THEN Failed(st, "account file does not exist: " \o name)
    ELSE IF ~read_ok
    THEN Failed(st, "read failed")
    ELSE IF fs[name][1] # "Json"
    THEN Failed(st, "parse failed")
    ELSE IF early \in {"no_db_path", "create_dir_failed"}
    THEN Failed(st, early)
    ELSE restore_db(st, fs[name][2], early # "open_failed", insert_ok, delete_ok)

\* restore_antigravity_account(account_name): the backup file of the account
\* is handed to the restore.
Restore(e) ==
    \E read_ok \in BOOLEAN, early \in EarlyOutcomes,
       insert_ok \in BOOLEAN, delete_ok \in BOOLEAN :
        LET r == save_antigravity_account_to_file(
                     files, BackupFile(e), store, read_ok, early, insert_ok, delete_ok)
        IN  /\ store' = r.store
            /\ opLog' = Log("restore", e, r.ok, store, r.count, FALSE)
            /\ UNCHANGED <<is_running, last_data, pc, new_data, stopPending, tickLog>>
            /\ UNCHANGED <<diffVars, snapVars, files, lastBackup, swVars, fnVars, rsVars>>

RestoreEmails == {"a@x"}

RestoreStores == AcctStores({"1", "x"}, {"1"}, {"1"}, {"x"})

RestoreInit ==
    /\ MonitorIdle
    /\ store \in RestoreStores
    /\ DiffIdle
    /\ SnapIdle
    /\ AcctIdle
    /\ SwitchIdle
    /\ FnIdle
    /\ ResetIdle

RestoreNext ==
    \/ \E e \in RestoreEmails : Backup(e)
    \/ \E e \in RestoreEmails : Restore(e)
    \/ HostWrite(RestoreStores)

RestoreSpec == RestoreInit /\ [][RestoreNext]_vars

\* -------------------------------------------------------------- SwitchSpec
\* switch_to_antigravity_account(account_name) is invoked.
SwitchStart ==
    /\ swPc = "idle"
    /\ swPc' = "kill"
    /\ UNCHANGED <<swTrace, swResult, hostRunning>>
    /\ UNCHANGED <<monitorVars, diffVars, snapVars, acctVars, fnVars, rsVars>>

\* Step 1: kill_antigravity_processes returns Ok when it killed a process and
\* the not-found Err otherwise, which the workflow takes as "not running".
SwitchKill ==
    /\ swPc = "kill"
    /\ \E killed \in BOOLEAN :
        /\ killed => hostRunning
        /\ hostRunning' = (hostRunning /\ ~killed)
        /\ swTrace' = Append(swTrace,
               <<"terminate", IF killed THEN "closed" ELSE "not running">>)
    /\ swPc' = "restore"
    /\ UNCHANGED <<swResult, monitorVars, diffVars, snapVars, acctVars, fnVars, rsVars>>

\* The store writes a restore has made, in the order of its statements.
RestoreWrites(st, r, delete_ok) ==
    (IF st = NoFile /\ r.store # NoFile THEN <<<<"write", "create">>>> ELSE <<>>)
    \o (IF r.count = 1 THEN <<<<"write", "insert">>>> ELSE <<>>)
    \o (IF r.ok /\ r.store[1] = "Table" /\ delete_ok
        THEN <<<<"write", "delete">>>> ELSE <<>>)

\* Step 2: restore_antigravity_account(account_name).await?
SwitchRestore_Unordered(e) ==
    /\ swPc \in {"kill", "restore"}
    /\ \E read_ok \in BOOLEAN, early \in EarlyOutcomes,
          insert_ok \in BOOLEAN, delete_ok \in BOOLEAN :
        LET r == save_antigravity_account_to_file(
                     files, BackupFile(e), store, read_ok, early, insert_ok, delete_ok)
        IN  /\ store' = r.store
            /\ IF r.ok
               THEN /\ swTrace' = swTrace \o RestoreWrites(store, r, delete_ok)
                                      \o <<<<"restore", r.msg>>>>
                    /\ swPc' = "launch"
                    /\ swResult' = swResult
               ELSE /\ swTrace' = swTrace \o RestoreWrites(store, r, delete_ok)
                    /\ swPc' = "failed"
                    /\ swResult' = <<"Err", r.msg>>
    /\ UNCHANGED <<hostRunning, files, lastBackup, opLog, diffVars, snapVars, fnVars, rsVars>>
    /\ UNCHANGED <<is_running, last_data, pc, new_data, stopPending, tickLog>>

SwitchRestore_SoftFailure(e) ==
    /\ swPc = "restore"
    /\ \E read_ok \in BOOLEAN, early \in EarlyOutcomes,
          insert_ok \in BOOLEAN, delete_ok \in BOOLEAN :
        LET r == save_antigravity_account_to_file(
                     files, BackupFile(e), store, read_ok, early, insert_ok, delete_ok)
        IN  /\ store' = r.store
            /\ swTrace' = swTrace \o RestoreWrites(store, r, delete_ok)
                              \o <<<<"restore", r.msg>>>>
            /\ swPc' = "launch"
            /\ swResult' = swResult
    /\ UNCHANGED <<hostRunning, files, lastBackup, opLog, diffVars, snapVars, fnVars, rsVars>>
    /\ UNCHANGED <<is_running, last_data, pc, new_data, stopPending, tickLog>>

SwitchRestore(e) ==
    /\ swPc = "restore"
    /\ \E read_ok \in BOOLEAN, early \in EarlyOutcomes,
          insert_ok \in BOOLEAN, delete_ok \in BOOLEAN :
        LET r == save_antigravity_account_to_file(
                     files, BackupFile(e), store, read_ok, early, insert_ok, delete_ok)
        IN  /\ store' = r.store
            /\ IF r.ok
               THEN /\ swTrace' = swTrace \o RestoreWrites(store, r, delete_ok)
                                      \o <<<<"restore", r.msg>>>>
                    /\ swPc' = "launch"
                    /\ swResult' = swResult
               ELSE /\ swTrace' = swTrace \o RestoreWrites(store, r, delete_ok)
                    /\ swPc' = "failed"
                    /\ swResult' = <<"Err", r.msg>>
    /\ UNCHANGED <<hostRunning, files, lastBackup, opLog, diffVars, snapVars, fnVars, rsVars>>
    /\ UNCHANGED <<is_running, last_data, pc, new_data, stopPending, tickLog>>

\* Step 3: start_antigravity; its failure is folded into the message.
SwitchLaunch_HardFailure ==
    /\ swPc = "launch"
    /\ \E started \in BOOLEAN :
        LET start_message == IF started THEN "started" ELSE "start failed"
        IN  /\ hostRunning' = (hostRunning \/ started)
            /\ swTrace' = Append(swTrace, <<"launch", start_message>>)
            /\ swResult' = IF started
                           THEN <<"Ok", <<swTrace[1][2], swTrace[Len(swTrace)][2],
                                          start_message>>>>
                           ELSE <<"Err", start_message>>
            /\ swPc' = IF started THEN "done" ELSE "failed"
    /\ UNCHANGED <<monitorVars, diffVars, snapVars, acctVars, fnVars, rsVars>>

SwitchLaunch ==
    /\ swPc = "launch"
    /\ \E started \in BOOLEAN :
        LET start_message == IF started THEN "started" ELSE "start failed"
        IN  /\ hostRunning' = (hostRunning \/ started)
            /\ swTrace' = Append(swTrace, <<"launch", start_message>>)
            /\ swResult' = <<"Ok", <<swTrace[1][2], swTrace[Len(swTrace)][2],
                                     start_message>>>>
    /\ swPc' = "done"
    /\ UNCHANGED <<monitorVars, diffVars, snapVars, acctVars, fnVars, rsVars>>

SwitchEmails == {"a@x"}

SwitchStores == AcctStores({"1", "x"}, {"1"}, {}, {})

\* The backup directory: empty, or one file for a@x, truncated or written by
\* a backup of one of the stores.
SwitchFiles ==
    {<<>>, BackupFile("a@x") :> Truncated} \cup
    {BackupFile("a@x") :> Json(BackupDocument("a@x", st, {}, TRUE)) :
        st \in SwitchStores \ {NoFile}}

SwitchInit ==
    /\ MonitorIdle
    /\ store \in SwitchStores
    /\ DiffIdle
    /\ SnapIdle
    /\ files \in SwitchFiles
    /\ lastBackup = [e \in Emails |-> None]
    /\ opLog = NoOp
    /\ swPc = "idle"
    /\ swTrace = <<>>
    /\ swResult = None
    /\ hostRunning \in BOOLEAN
    /\ FnIdle
    /\ ResetIdle

SwitchNext ==
    \/ SwitchStart
    \/ SwitchKill
    \/ \E e \in SwitchEmails : SwitchRestore(e)
    \/ SwitchLaunch
    \/ hostRunning /\ HostWrite(SwitchStores)

SwitchSpec == SwitchInit /\ [][SwitchNext]_vars

\* ---------------------------------------------------------------- KillSpec
\* The process table: pid -> name and whether process.kill() succeeds.  The
\* match is exact and case sensitive.
ProcNames == {"Antigravity", "antigravity", "Other"}

ProcTables ==
    UNION {[1..n -> [name : ProcNames, kill_ok : BOOLEAN]] : n \in 0..MaxProcs}

Matching(procs) == {i \in DOMAIN procs : procs[i].name = "Antigravity"}

\* killed_processes: the matching processes whose kill() returned true.
killed_processes(procs) == {i \in Matching(procs) : procs[i].kill_ok}

\* kill_antigravity_processes(): the not-found Err when nothing was killed,
\* else Ok listing the killed pids.
kill_antigravity_processes_ReportsFailure(procs) ==
    IF killed_processes(procs) # {} THEN <<"Ok", killed_processes(procs)>>
    ELSE IF Matching(procs) = {} THEN <<"Err", "not found">>
    ELSE <<"Err", "kill failed">>

kill_antigravity_processes(procs) ==
    IF killed_processes(procs) = {}
    THEN <<"Err", "not found">>
    ELSE <<"Ok", killed_processes(procs)>>

KillInit ==
    /\ MonitorIdle
    /\ store = NoFile
    /\ DiffIdle
    /\ SnapIdle
    /\ AcctIdle
    /\ SwitchIdle
    /\ fnIn \in ProcTables
    /\ fnOut = None
    /\ ResetIdle

KillApply ==
    /\ fnOut = None
    /\ fnOut' = Some(kill_antigravity_processes(fnIn))
    /\ UNCHANGED <<fnIn, monitorVars, diffVars, snapVars, acctVars, swVars, rsVars>>

KillNext == KillApply

KillSpec == KillInit /\ [][KillNext]_vars

\* -------------------------------------------------------------- LaunchSpec
\* What start_antigravity finds: the configured executable (None, or whether
\* the path is an existing file and whether spawning it succeeds), for each
\* candidate path whether it exists and whether spawning it succeeds, and for
\* each bare command whether spawning it succeeds.
Commands == <<"antigravity", "Antigravity">>

LaunchEnvs ==
    [custom : {None} \cup {Some(c) : c \in [valid : BOOLEAN, spawn_ok : BOOLEAN]},
     paths : [1..MaxCands -> [exists : BOOLEAN, spawn_ok : BOOLEAN]],
     commands : [1..Len(Commands) -> BOOLEAN]]

\* A result: Ok or Err, the spawns attempted in order, the errors collected.
Outcome(ok, attempts, errors) ==
    [ok |-> ok, attempts |-> attempts, errors |-> errors]

\* try_start_from_commands: spawn each command until one starts.
RECURSIVE CommandsFrom_FirstOnly(_, _, _, _)
CommandsFrom_FirstOnly(cmds, i, attempts, errors) ==
    IF i > Len(cmds) \/ i > 1 THEN Outcome(FALSE, attempts, errors)
    ELSE IF cmds[i] THEN Outcome(TRUE, Append(attempts, <<"command", i>>), errors)
    ELSE CommandsFrom_FirstOnly(cmds, i + 1, Append(attempts, <<"command", i>>),
                      Append(errors, <<"command", i, "start failed">>))

RECURSIVE CommandsFrom(_, _, _, _)
CommandsFrom(cmds, i, attempts, errors) ==
    IF i > Len(cmds) THEN Outcome(FALSE, attempts, errors)
    ELSE IF cmds[i] THEN Outcome(TRUE, Append(attempts, <<"command", i>>), errors)
    ELSE CommandsFrom(cmds, i + 1, Append(attempts, <<"command", i>>),
                      Append(errors, <<"command", i, "start failed">>))

\* start_antigravity_linux: spawn each candidate path that exists until one
\* starts, then the commands.
RECURSIVE PathsFrom_KeepsGoing(_, _, _, _, _)
PathsFrom_KeepsGoing(paths, cmds, i, attempts, errors) ==
    IF i > Len(paths) THEN CommandsFrom(cmds, 1, attempts, errors)
    ELSE IF ~paths[i].exists
    THEN PathsFrom_KeepsGoing(paths, cmds, i + 1, attempts,
                   Append(errors, <<"path", i, "does not exist">>))
    ELSE PathsFrom_KeepsGoing(paths, cmds, i + 1, Append(attempts, <<"path", i>>),
                   IF paths[i].spawn_ok THEN errors
                   ELSE Append(errors, <<"path", i, "start failed">>))

RECURSIVE PathsFrom(_, _, _, _, _)
PathsFrom(paths, cmds, i, attempts, errors) ==
    IF i > Len(paths) THEN CommandsFrom(cmds, 1, attempts, errors)
    ELSE IF ~paths[i].exists
    THEN PathsFrom(paths, cmds, i + 1, attempts,
                   Append(errors, <<"path", i, "does not exist">>))
    ELSE IF paths[i].spawn_ok
    THEN Outcome(TRUE, Append(attempts, <<"path", i>>), errors)
    ELSE PathsFrom(paths, cmds, i + 1, Append(attempts, <<"path", i>>),
                   Append(errors, <<"path", i, "start failed">>))

\* start_antigravity: a configured executable that is an existing file is
\* spawned and its result returned; otherwise the automatic detection runs.
start_antigravity(env) ==
    IF env.custom # None /\ env.custom[2].valid
    THEN Outcome(env.custom[2].spawn_ok, <<<<"custom", 1>>>>,
                 IF env.custom[2].spawn_ok THEN <<>>
                 ELSE <<<<"custom", 1, "start failed">>>>)
    ELSE PathsFrom(env.paths, env.commands, 1, <<>>, <<>>)

LaunchInit ==
    /\ MonitorIdle
    /\ store = NoFile
    /\ DiffIdle
    /\ SnapIdle
    /\ AcctIdle
    /\ SwitchIdle
    /\ fnIn \in LaunchEnvs
    /\ fnOut = None
    /\ ResetIdle

LaunchApply ==
    /\ fnOut = None
    /\ fnOut' = Some(start_antigravity(fnIn))
    /\ UNCHANGED <<fnIn, monitorVars, diffVars, snapVars, acctVars, swVars, rsVars>>

LaunchNext == LaunchApply

LaunchSpec == LaunchInit /\ [][LaunchNext]_vars

\* ---------------------------------------------------------------- PathSpec
\* What get_antigravity_db_path finds: the outcome of reading the
\* configuration (an error, or the configured data path if any), what lies
\* at <dir>/state.vscdb for each directory, and the detected data directory.
DataDirs == {"/c1", "/c2"}

DetectedDirs == {"/auto", "/c1"}

ReadError == <<"Err">>

PathEnvs ==
    [config : {ReadError, None} \cup {Some(d) : d \in DataDirs},
     disk : [DataDirs -> {"missing", "file", "dir"}],
     detected : {None} \cup {Some(d) : d \in DetectedDirs}]

\* PathBuf::join("state.vscdb")
JoinDb(dir) == dir \o "/state.vscdb"

\* get_custom_data_path: the configured path of a configuration that reads.
get_custom_data_path(env) == env.config

get_antigravity_db_path_Unvalidated(env) ==
    IF get_custom_data_path(env) # ReadError /\ get_custom_data_path(env) # None
    THEN Some(JoinDb(get_custom_data_path(env)[2]))
    ELSE IF env.detected = None THEN None ELSE Some(JoinDb(env.detected[2]))

\* get_antigravity_db_path: the configured path if its state.vscdb exists and
\* is a file, otherwise the detected directory's state.vscdb.
get_antigravity_db_path(env) ==
    IF /\ get_custom_data_path(env) # ReadError
       /\ get_custom_data_path(env) # None
       /\ env.disk[get_custom_data_path(env)[2]] = "file"
    THEN Some(JoinDb(get_custom_data_path(env)[2]))
    ELSE IF env.detected = None THEN None ELSE Some(JoinDb(env.detected[2]))

PathInit ==
    /\ MonitorIdle
    /\ store = NoFile
    /\ DiffIdle
    /\ SnapIdle
    /\ AcctIdle
    /\ SwitchIdle
    /\ fnIn \in PathEnvs
    /\ fnOut = None
    /\ ResetIdle

PathApply ==
    /\ fnOut = None
    /\ fnOut' = Some(get_antigravity_db_path(fnIn))
    /\ UNCHANGED <<fnIn, monitorVars, diffVars, snapVars, acctVars, swVars, rsVars>>

PathNext == PathApply

PathSpec == PathInit /\ [][PathNext]_vars

\* ----------------------------------------------------------- WatchPathSpec
\* The path get_complete_data opens: the fixed Antigravity/User/globalStorage
\* directory under dirs::config_dir(), the directory get_antigravity_data_dir
\* detects, or under the empty path when there is none (unwrap_or_default).
\* The configuration is not read.
monitor_db_path(env) ==
    JoinDb(IF env.detected = None THEN "" ELSE env.detected[2])

\* Both resolutions in the same configuration: the store path of backup,
\* restore and the workflows, and the path the monitor snapshots.
WatchPathApply ==
    /\ fnOut = None
    /\ fnOut' = Some(<<get_antigravity_db_path(fnIn), monitor_db_path(fnIn)>>)
    /\ UNCHANGED <<fnIn, monitorVars, diffVars, snapVars, acctVars, swVars, rsVars>>

WatchPathNext == WatchPathApply

WatchPathSpec == PathInit /\ [][WatchPathNext]_vars

\* --------------------------------------------------------------- ResetSpec
\* backup_and_restart_antigravity() is invoked.
ResetStart ==
    /\ rsPc = "idle"
    /\ rsPc' = "kill"
    /\ rsTrace' = <<<<"start", files>>>>
    /\ UNCHANGED <<rsEmail, rsBackup, rsResult, hostRunning, swPc, swTrace, swResult>>
    /\ UNCHANGED <<monitorVars, diffVars, snapVars, acctVars, fnVars>>

\* Step 1: kill_antigravity_processes on the process table of the moment, in
\* which a process matches exactly when the host is running.  The not-found
\* Err is taken as "not running"; any other Err ends the workflow.
ResetKill ==
    /\ rsPc = "kill"
    /\ \E procs \in ProcTables :
        LET r == kill_antigravity_processes(procs)
        IN  /\ Matching(procs) # {} <=> hostRunning
            /\ hostRunning' = (Matching(procs) \ killed_processes(procs) # {})
            /\ IF r[1] = "Ok"
               THEN /\ rsTrace' = Append(rsTrace, <<"terminate", "closed">>)
                    /\ rsPc' = "auth"
                    /\ rsResult' = rsResult
               ELSE IF r[2] = "not found"
               THEN /\ rsTrace' = Append(rsTrace, <<"terminate", "not running">>)
                    /\ rsPc' = "auth"
                    /\ rsResult' = rsResult
               ELSE /\ rsTrace' = Append(rsTrace, <<"terminate", "error">>)
                    /\ rsPc' = "failed"
                    /\ rsResult' = <<"Err", r[2]>>
    /\ UNCHANGED <<rsEmail, rsBackup, swPc, swTrace, swResult>>
    /\ UNCHANGED <<monitorVars, diffVars, snapVars, acctVars, fnVars>>

\* auth_data.get("email").and_then(|v| v.as_str()) on the auth-status row.
ExtractEmail(auth) ==
    LET parsed == IF auth # None THEN from_str(auth[2]) ELSE <<"Err">>
    IN  IF /\ parsed[1] = "Ok"
           /\ IsObject(parsed[2])
           /\ "email" \in DOMAIN parsed[2][2]
           /\ parsed[2][2]["email"][1] = "String"
        THEN Some(parsed[2][2]["email"][2])
        ELSE None

\* Step 2, first half: open the store and read the email of the logged-in
\* account.  Connection::open creates the store file when it is absent.  The
\* event keeps the store the read found.
ResetAuth ==
    /\ rsPc = "auth"
    /\ \E opened \in BOOLEAN, read_ok \in BOOLEAN :
        LET email == IF opened
                     THEN ExtractEmail(QueryValue(store, AUTH_STATUS, read_ok))
                     ELSE None
        IN  /\ store' = IF opened /\ store = NoFile THEN NoTable ELSE store
            /\ rsEmail' = email
            /\ rsTrace' = Append(rsTrace, <<"auth", email, store>>)
            /\ rsPc' = IF email = None THEN "clear" ELSE "backup"
    /\ UNCHANGED <<rsBackup, rsResult, hostRunning, swPc, swTrace, swResult>>
    /\ UNCHANGED <<is_running, last_data, pc, new_data, stopPending, tickLog>>
    /\ UNCHANGED <<diffVars, snapVars, acctVars, fnVars>>

\* Step 2, second half: smart_backup_antigravity_account(email); its Err is
\* logged and leaves backup_info None.
ResetBackup_AssumesSuccess ==
    /\ rsPc = "backup"
    /\ smart_backup_antigravity_account(rsEmail[2])
    /\ rsBackup' = Some(<<rsEmail[2],
                          IF BackupFile(rsEmail[2]) \in DOMAIN files
                          THEN "updated" ELSE "created">>)
    /\ rsTrace' = Append(rsTrace,
                         <<"backup", IF opLog'.ok THEN "ok" ELSE "failed">>)
    /\ rsPc' = "clear"
    /\ UNCHANGED <<rsEmail, rsResult, hostRunning, swPc, swTrace, swResult>>
    /\ UNCHANGED <<monitorVars, diffVars, snapVars, fnVars>>

ResetBackup ==
    /\ rsPc = "backup"
    /\ smart_backup_antigravity_account(rsEmail[2])
    /\ rsBackup' = IF opLog'.ok
                   THEN Some(<<rsEmail[2],
                               IF BackupFile(rsEmail[2]) \in DOMAIN files
                               THEN "updated" ELSE "created">>)
                   ELSE None
    /\ rsTrace' = Append(rsTrace,
                         <<"backup", IF opLog'.ok THEN "ok" ELSE "failed">>)
    /\ rsPc' = "clear"
    /\ UNCHANGED <<rsEmail, rsResult, hostRunning, swPc, swTrace, swResult>>
    /\ UNCHANGED <<monitorVars, diffVars, snapVars, fnVars>>

\* antigravity_cleanup::clear_all_antigravity_data: deletes every row of the
\* store, or fails and leaves it as it was.
clear_all_antigravity_data(st, clear_ok) ==
    IF clear_ok
    THEN [ok |-> TRUE, store |-> IF st[1] = "Table" THEN Table(<<>>) ELSE st]
    ELSE [ok |-> FALSE, store |-> st]

\* Step 3: the clear; its Err is logged only.  The event keeps the store the
\* clear found.
ResetClear_OnlyAfterBackup ==
    /\ rsPc = "clear"
    /\ \E clear_ok \in BOOLEAN :
        LET r == clear_all_antigravity_data(store, clear_ok)
        IN  IF rsBackup = None
            THEN UNCHANGED <<store, rsTrace>>
            ELSE /\ store' = r.store
                 /\ rsTrace' = Append(rsTrace,
                        <<"clear", IF r.ok THEN "ok" ELSE "failed", store>>)
    /\ rsPc' = "launch"
    /\ UNCHANGED <<rsEmail, rsBackup, rsResult, hostRunning, swPc, swTrace, swResult>>
    /\ UNCHANGED <<is_running, last_data, pc, new_data, stopPending, tickLog>>
    /\ UNCHANGED <<diffVars, snapVars, acctVars, fnVars>>

ResetClear ==
    /\ rsPc = "clear"
    /\ \E clear_ok \in BOOLEAN :
        LET r == clear_all_antigravity_data(store, clear_ok)
        IN  /\ store' = r.store
            /\ rsTrace' = Append(rsTrace,
                   <<"clear", IF r.ok THEN "ok" ELSE "failed", store>>)
    /\ rsPc' = "launch"
    /\ UNCHANGED <<rsEmail, rsBackup, rsResult, hostRunning, swPc, swTrace, swResult>>
    /\ UNCHANGED <<is_running, last_data, pc, new_data, stopPending, tickLog>>
    /\ UNCHANGED <<diffVars, snapVars, acctVars, fnVars>>

\* The second part of final_message.
BackupMessage(backup_info) ==
    IF backup_info # None
    THEN "backed up (" \o backup_info[2][2] \o "): " \o backup_info[2][1]
    ELSE "no logged-in user detected (skipped backup)"

\* Step 4: start_antigravity, then final_message.
ResetLaunch ==
    /\ rsPc = "launch"
    /\ \E started \in BOOLEAN :
        LET start_message == IF started THEN "started" ELSE "start failed"
        IN  /\ hostRunning' = (hostRunning \/ started)
            /\ rsTrace' = Append(rsTrace, <<"launch", start_message>>)
            /\ rsResult' = <<"Ok", <<rsTrace[2][2], BackupMessage(rsBackup),
                                     "cleared account data", start_message>>>>
    /\ rsPc' = "done"
    /\ UNCHANGED <<rsEmail, rsBackup, swPc, swTrace, swResult>>
    /\ UNCHANGED <<monitorVars, diffVars, snapVars, acctVars, fnVars>>

AuthRaws == {"{\"email\":\"a@x\"}", "{}", "x"}

ResetStores == AcctStores({"1"}, AuthRaws, {}, {})

\* The backup directory: empty, or holding an earlier backup of a@x.
ResetFiles ==
    {<<>>, BackupFile("a@x") :> Json(BackupDocument("a@x", Table(<<>>), {}, TRUE))}

ResetInit ==
    /\ MonitorIdle
    /\ store \in ResetStores
    /\ DiffIdle
    /\ SnapIdle
    /\ files \in ResetFiles
    /\ lastBackup = [e \in Emails |-> None]
    /\ opLog = NoOp
    /\ swPc = "idle"
    /\ swTrace = <<>>
    /\ swResult = None
    /\ hostRunning \in BOOLEAN
    /\ FnIdle
    /\ ResetIdle

ResetNext ==
    \/ ResetStart
    \/ ResetKill
    \/ ResetAuth
    \/ ResetBackup
    \/ ResetClear
    \/ ResetLaunch
    \/ hostRunning /\ HostWrite(ResetStores)

ResetSpec == ResetInit /\ [][ResetNext]_vars

\* ---------------------------------------------------------------- RaceSpec
\* Tauri runs async commands concurrently and the workflows take no lock:
\* the steps of a reset of the logged-in account a@x interleave with the
\* steps of a switch to b@x, whose backup record holds another agent state.
RaceStore ==
    Table((AGENT_STATE :> "1") @@ (AUTH_STATUS :> "{\"email\":\"a@x\"}"))

RaceFiles ==
    BackupFile("b@x") :>
        Json(BackupDocument("b@x", Table(AGENT_STATE :> "x"), {}, TRUE))

RaceInit ==
    /\ MonitorIdle
    /\ store = RaceStore
    /\ DiffIdle
    /\ SnapIdle
    /\ files = RaceFiles
    /\ lastBackup = [e \in Emails |-> None]
    /\ opLog = NoOp
    /\ swPc = "idle"
    /\ swTrace = <<>>
    /\ swResult = None
    /\ hostRunning \in BOOLEAN
    /\ FnIdle
    /\ ResetIdle

RaceNext ==
    \/ ResetStart
    \/ ResetKill
    \/ ResetAuth
    \/ ResetBackup
    \/ ResetClear
    \/ ResetLaunch
    \/ SwitchStart
    \/ SwitchKill
    \/ SwitchRestore("b@x")
    \/ SwitchLaunch

RaceSpec == RaceInit /\ [][RaceNext]_vars

\* ------------------------------------------------------------------ claims

Has(seq, e) == \E i \in 1..Len(seq) : seq[i] = e

Alive(t) == pc[t] # "idle"

\* C1: at most one monitor loop is alive that no stop_monitoring call has
\* asked to exit: start_monitoring on a Running monitor spawns no second loop.
C1_AtMostOneLoop ==
    Cardinality({t \in Loops : Alive(t) /\ ~stopPending[t]}) <= 1

\* C2: a loop that was alive when stop_monitoring was called exits at its
\* next check of the flag, whatever was called in between.
C2_StoppedLoopExits ==
    [][\A t \in Loops :
          (stopPending[t] /\ pc[t] = "tick" /\ pc'[t] # "tick")
              => pc'[t] = "idle"]_vars

\* C3: on a tick whose read succeeds with a previous snapshot stored, the
\* change event is emitted iff the diff of (previous, read) has changes, and
\* it carries newData = the read, oldData = the previous snapshot and that
\* diff.
C3_EventIffChanges ==
    (tickLog.kind = "ok" /\ tickLog.prev # None) =>
        LET diff == analyze_diff(tickLog.prev, tickLog.read)
        IN /\ (tickLog.event # None) <=> diff.has_changes
           /\ tickLog.event # None =>
                 tickLog.event = <<"Event", tickLog.read, tickLog.prev, diff>>

\* A tick with a previous snapshot emitted an event.
C3_Witness ==
    /\ tickLog.kind = "ok"
    /\ tickLog.prev # None
    /\ tickLog.event # None
    /\ tickLog.event[4].has_changes

\* C4: after a tick whose read succeeds, the stored snapshot is the snapshot
\* read on that tick, with or without changes, emit failed or not.
C4_StoredIsRead ==
    tickLog.kind = "ok" => last_data = tickLog.read

\* A tick emitted, the emit failed, and the read is stored all the same.
C4_Witness ==
    /\ tickLog.kind = "ok"
    /\ tickLog.event # None
    /\ ~tickLog.emit_ok
    /\ last_data = tickLog.read
    /\ last_data # tickLog.prev

\* C5: a tick whose read fails leaves the stored snapshot as it was, emits
\* nothing and sends the loop to its next tick; until another tick succeeds
\* the stored snapshot is the one from before the failure.
C5_FailedTickKeepsPrevious ==
    /\ [](tickLog.kind = "err" =>
             last_data = tickLog.prev /\ tickLog.event = None)
    /\ [][\A t \in Loops :
             (pc[t] = "read" /\ pc'[t] # "read" /\ pc'[t] # "update") =>
                 /\ pc'[t] = "tick"
                 /\ last_data' = last_data
                 /\ tickLog'.kind = "err"
                 /\ tickLog'.event = None]_vars

\* A read failed after a snapshot had been stored, and the loop is at its
\* next tick.
C5_Witness ==
    /\ tickLog.kind = "err"
    /\ last_data # None
    /\ last_data = tickLog.prev
    /\ \E t \in Loops : pc[t] = "tick"

\* C6: for object snapshots, changed_fields holds "k: removed" iff k is in
\* old only, "k: added" iff k is in new only, "k: changed" iff k is in both
\* with unequal values, and nothing else.
C6_DiffEntries ==
    (dFwd # None /\ IsObject(dOld) /\ IsObject(dNew)) =>
        LET cf == dFwd[2].changed_fields
            a == dOld[2]
            b == dNew[2]
            removed == {k \in Keys : k \in DOMAIN a /\ k \notin DOMAIN b}
            added == {k \in Keys : k \notin DOMAIN a /\ k \in DOMAIN b}
            changed == {k \in Keys : k \in DOMAIN a /\ k \in DOMAIN b /\ a[k] # b[k]}
        IN /\ \A k \in Keys :
                 /\ Has(cf, k \o ": removed") <=> k \in removed
                 /\ Has(cf, k \o ": added") <=> k \in added
                 /\ Has(cf, k \o ": changed") <=> k \in changed
           /\ Len(cf) = Cardinality(removed) + Cardinality(added) + Cardinality(changed)

\* {A: 1, B: 2} -> {A: 1, C: 3} reports C added and B removed, nothing for A.
C6_Witness ==
    /\ dFwd # None
    /\ dOld = Obj(("A" :> Num(1)) @@ ("B" :> Num(2)))
    /\ dNew = Obj(("A" :> Num(1)) @@ ("C" :> Num(3)))
    /\ dFwd[2].changed_fields = <<"C: added", "B: removed">>

\* C7: the diff of an object snapshot with itself has no changes and no
\* changed fields.
C7_DiffSelf ==
    (dFwd # None /\ IsObject(dOld) /\ dOld = dNew) =>
        /\ ~dFwd[2].has_changes
        /\ dFwd[2].changed_fields = <<>>

\* A snapshot of three rows was diffed with itself.
C7_Witness ==
    /\ dFwd # None
    /\ IsObject(dOld)
    /\ dOld = dNew
    /\ DOMAIN dOld[2] = Keys
    /\ ~dFwd[2].has_changes

\* C8: for object snapshots the two directions report the same keys: added
\* one way is removed the other way, changed is changed both ways.
C8_DiffSymmetry ==
    (dFwd # None /\ IsObject(dOld) /\ IsObject(dNew)) =>
        LET fwd == dFwd[2].changed_fields
            rev == dRev[2].changed_fields
        IN /\ \A k \in Keys :
                 /\ Has(fwd, k \o ": added") <=> Has(rev, k \o ": removed")
                 /\ Has(fwd, k \o ": removed") <=> Has(rev, k \o ": added")
                 /\ Has(fwd, k \o ": changed") <=> Has(rev, k \o ": changed")
           /\ Len(fwd) = Len(rev)

\* A diff with an added, a removed and a changed key, in both directions.
C8_Witness ==
    /\ dFwd # None
    /\ IsObject(dOld)
    /\ IsObject(dNew)
    /\ Has(dFwd[2].changed_fields, "A: changed")
    /\ Has(dFwd[2].changed_fields, "B: removed")
    /\ Has(dFwd[2].changed_fields, "C: added")
    /\ Has(dRev[2].changed_fields, "B: added")
    /\ Has(dRev[2].changed_fields, "C: removed")

\* C9: for every pair of inputs, objects or not, has_changes is true exactly
\* when changed_fields is not empty.
C9_HasChangesIffFields ==
    dFwd # None =>
        (dFwd[2].has_changes <=> Len(dFwd[2].changed_fields) > 0)

\* The diff of the null value against an object: one entry, has_changes set.
C9_Witness ==
    /\ dFwd # None
    /\ IsNull(dOld)
    /\ IsObject(dNew)
    /\ Len(dFwd[2].changed_fields) = 1
    /\ dFwd[2].has_changes

\* C10: a tick that finds no previous snapshot and reads a non-empty store
\* reports the single entry "data: added"; a tick that reads an absent store
\* (the empty object) after a non-empty snapshot reports the single entry
\* "data: removed".
C10_SyntheticEntry ==
    tickLog.kind = "ok" =>
        /\ (tickLog.prev = None /\ tickLog.read # Obj(<<>>)) =>
              /\ tickLog.event # None
              /\ tickLog.event[4].changed_fields = <<"data: added">>
        /\ (tickLog.prev # None /\ tickLog.prev # Obj(<<>>)
                /\ tickLog.read = Obj(<<>>)) =>
              /\ tickLog.event # None
              /\ tickLog.event[4].changed_fields = <<"data: removed">>

\* C11: a read of a store file that does not exist returns the empty object
\* and the tick goes on to its update; it never takes the Err arm.
C11_MissingFileReadsEmpty ==
    [][\A t \in Loops :
          (pc[t] = "read" /\ store = NoFile /\ pc'[t] # "read") =>
              /\ pc'[t] = "update"
              /\ new_data'[t] = Obj(<<>>)]_vars

\* The first tick read a missing file and stored the empty object.
C11_Witness ==
    /\ store = NoFile
    /\ tickLog.kind = "ok"
    /\ tickLog.prev = None
    /\ tickLog.read = Obj(<<>>)
    /\ last_data = Obj(<<>>)

\* What a row's raw string is compared as: its parsed value, or the raw
\* string itself when it is not JSON.
ComparedAs(raw) ==
    IF from_str(raw)[1] = "Ok" THEN from_str(raw)[2] ELSE Str(raw)

\* C12: a key of both snapshots gets a diff entry iff its two raw strings
\* differ in what they are compared as: raw strings that parse to equal
\* values give no entry, and a raw string that is not JSON is compared as
\* that string.
C12_FormattingIgnored ==
    rDiff # None =>
        \A k \in DOMAIN Rows(rOld) \cap DOMAIN Rows(rNew) :
            /\ Has(rDiff[2].changed_fields, k \o ": changed")
                   <=> ComparedAs(Rows(rOld)[k]) # ComparedAs(Rows(rNew)[k])
            /\ ~Has(rDiff[2].changed_fields, k \o ": added")
            /\ ~Has(rDiff[2].changed_fields, k \o ": removed")

\* "1" against " 1" gives no entry, "x" against "y" (neither is JSON) gives
\* one.
C12_Witness ==
    /\ rDiff # None
    /\ rOld = Table(("A" :> "1") @@ ("B" :> "x"))
    /\ rNew = Table(("A" :> " 1") @@ ("B" :> "y"))
    /\ rDiff[2].changed_fields = <<"B: changed">>

\* The document of the backup file of e; <<>> when the file does not hold one.
Document(e) ==
    IF BackupFile(e) \in DOMAIN files /\ files[BackupFile(e)][1] = "Json"
    THEN files[BackupFile(e)][2]
    ELSE <<>>

\* The latest operation is a backup that returned Ok.
BackupDone == opLog.kind = "backup" /\ opLog.ok

\* C15: after any sequence of backups, the backup file of every identifier
\* that was backed up successfully holds the document of its most recent
\* successful backup, whatever was backed up for the other identifiers since.
C15_OneRecordPerIdentifier ==
    \A e \in Emails :
        lastBackup[e] # None =>
            /\ BackupFile(e) \in DOMAIN files
            /\ files[BackupFile(e)] = Json(lastBackup[e][2][1])

\* C16: the record of a successful backup holds an allow-listed key, with the
\* store's raw string, if and only if the key was in the store at backup time.
C16_KeyIffPresent ==
    BackupDone =>
        \A k \in AllKeySet :
            /\ k \in DOMAIN Document(opLog.email) <=> k \in DOMAIN Rows(opLog.pre)
            /\ k \in DOMAIN Rows(opLog.pre) =>
                   Document(opLog.email)[k] = Str(Rows(opLog.pre)[k])

\* The marker row was in the store, its query succeeded and its content parses.
MarkerParsed ==
    /\ TARGET_STORAGE_MARKER \in DOMAIN Rows(opLog.pre)
    /\ opLog.marker_ok
    /\ from_str(Rows(opLog.pre)[TARGET_STORAGE_MARKER])[1] = "Ok"

RestoreDone == opLog.kind = "restore" /\ opLog.ok

\* The backup file of e holds the document of the latest successful backup
\* of e: the restore of e that has just run read that backup.
RestoredFromBackup(e) ==
    /\ RestoreDone
    /\ opLog.email = e
    /\ lastBackup[e] # None
    /\ files[BackupFile(e)] = Json(lastBackup[e][2][1])

\* The store rows when e was last backed up successfully.
AtBackup(e) == lastBackup[e][2][2]

C14_AuthStatusAbsent ==
    RestoreDone => AUTH_STATUS \notin DOMAIN Rows(store)

\* C18: a restore whose backup file is missing or does not parse returns an
\* error and leaves the store as it was.
C18_BadBackupLeavesStore ==
    (/\ opLog.kind = "restore"
     /\ \/ BackupFile(opLog.email) \notin DOMAIN files
        \/ files[BackupFile(opLog.email)][1] # "Json") =>
        /\ ~opLog.ok
        /\ store = opLog.pre

\* A restore from a backup file that does not parse, on a store that holds
\* the auth-status key.
C18_Witness ==
    /\ opLog.kind = "restore"
    /\ BackupFile(opLog.email) \in DOMAIN files
    /\ files[BackupFile(opLog.email)] = Truncated
    /\ ~opLog.ok
    /\ AUTH_STATUS \in DOMAIN Rows(store)

\* The positions of the workflow's trace that hold a step of the given kind.
Steps(kind) == {i \in DOMAIN swTrace : swTrace[i][1] = kind}

\* C19: within one switch workflow the terminate step comes before the
\* restore's first store write, every store write of the restore before the
\* launch, and a run that succeeds has made each of the three steps once, in
\* the order terminate, restore, launch.
C19_StepsInOrder ==
    /\ \A i \in Steps("write") \cup Steps("restore") :
           \E j \in Steps("terminate") : j < i
    /\ \A i \in Steps("launch") :
        /\ \A j \in Steps("write") : j < i
        /\ \E j \in Steps("restore") : j < i
    /\ swPc = "done" =>
        /\ Cardinality(Steps("terminate")) = 1
        /\ Cardinality(Steps("restore")) = 1
        /\ Cardinality(Steps("launch")) = 1
        /\ swTrace[1][1] = "terminate"
        /\ swTrace[Len(swTrace)][1] = "launch"

\* A successful run that closed the host, inserted the agent state, deleted
\* the auth status and started the host.
C19_Witness ==
    /\ swPc = "done"
    /\ swTrace = << <<"terminate", "closed">>, <<"write", "insert">>,
                    <<"write", "delete">>, <<"restore", "restored">>,
                    <<"launch", "started">> >>

\* C20: a switch workflow for an identifier without a backup file never
\* attempts the launch, and what it returns is the error that names the
\* missing file, returned after the terminate step.
C20_MissingBackupHardFailure ==
    \A e \in SwitchEmails :
        BackupFile(e) \notin DOMAIN files =>
            /\ Steps("launch") = {}
            /\ swPc \notin {"launch", "done"}
            /\ swResult # None =>
                /\ swResult = <<"Err", "account file does not exist: " \o BackupFile(e)>>
                /\ Steps("terminate") # {}
                /\ Steps("write") = {}

\* The workflow has failed on the missing file of a@x after closing the host.
C20_Witness ==
    /\ BackupFile("a@x") \notin DOMAIN files
    /\ swPc = "failed"
    /\ swResult = <<"Err", "account file does not exist: a@x.json">>
    /\ swTrace = << <<"terminate", "closed">> >>
    /\ ~hostRunning

\* C21: kill_antigravity_processes returns the not-found outcome if and only
\* if no process has the exact name, and with at least one such process it
\* returns success.
C21_NotFoundIffNoMatch ==
    fnOut # None =>
        /\ fnOut[2] = <<"Err", "not found">> <=> Matching(fnIn) = {}
        /\ Matching(fnIn) # {} => fnOut[2][1] = "Ok"

\* C22: in the switch workflow, once the restore step has succeeded the
\* workflow returns success whatever the terminate and launch steps gave, its
\* message holds the outcome of each of the three steps, and the launch step
\* leaves the store as the restore step wrote it.
C22_SoftOutcomes ==
    [][(swPc = "launch" /\ swPc' # "launch") =>
        /\ swPc' = "done"
        /\ store' = store
        /\ swResult' = <<"Ok", <<swTrace[1][2], "restored",
                                 swTrace'[Len(swTrace')][2]>>>>
        /\ swTrace[1][1] = "terminate"
        /\ swTrace'[Len(swTrace')][1] = "launch"]_vars

\* A run that found no process, restored the agent state and failed to
\* start the host: it returned Ok and the store holds the restored value.
C22_Witness ==
    /\ swPc = "done"
    /\ swResult = <<"Ok", <<"not running", "restored", "start failed">>>>
    /\ Has(swTrace, <<"write", "insert">>)
    /\ AGENT_STATE \in DOMAIN Rows(store)
    /\ Str(Rows(store)[AGENT_STATE]) = Document("a@x")[AGENT_STATE]

\* The positions of the reset workflow's trace that hold a step of the kind.
RsSteps(kind) == {i \in DOMAIN rsTrace : rsTrace[i][1] = kind}

\* The reset workflow found no email in the store's auth info.
NoEmailFound ==
    Len(rsTrace) >= 3 /\ rsTrace[3][1] = "auth" /\ rsTrace[3][2] = None

SkippedText == "no logged-in user detected (skipped backup)"

\* C23: in the reset workflow, when no account identifier is found in the
\* store, the backup directory stays as it was when the workflow started, the
\* clear step is still made, and the message says the backup was skipped.
C23_NoAuthSkipsBackup ==
    NoEmailFound =>
        /\ files = rsTrace[1][2]
        /\ RsSteps("backup") = {}
        /\ rsPc \in {"launch", "done"} => RsSteps("clear") # {}
        /\ rsPc = "done" => rsResult = <<"Ok", <<rsResult[2][1], SkippedText,
                                "cleared account data", rsResult[2][4]>>>>

\* A finished run on a store whose auth info is not JSON, with an earlier
\* backup of a@x in the directory: the store is cleared, the file untouched.
C23_Witness ==
    /\ rsPc = "done"
    /\ NoEmailFound
    /\ rsTrace[4][1] = "clear"
    /\ AUTH_STATUS \in DOMAIN Rows(rsTrace[4][3])
    /\ Rows(rsTrace[4][3])[AUTH_STATUS] = "x"
    /\ store = Table(<<>>)
    /\ BackupFile("a@x") \in DOMAIN files
    /\ rsResult[2][2] = SkippedText

\* C24: in the reset workflow, when an identifier E is found and its backup
\* succeeds, the backup comes before the clear and the record of E holds the
\* allow-listed values of the store the clear found (the store not having
\* been written between the two steps).
C24_BackupBeforeClear ==
    \A i \in RsSteps("clear") :
        (rsEmail # None /\ opLog.kind = "backup" /\ opLog.ok) =>
            /\ \E j \in RsSteps("backup") : j < i
            /\ \A k \in AllKeySet :
                /\ k \in DOMAIN Document(rsEmail[2]) <=> k \in DOMAIN Rows(rsTrace[i][3])
                /\ k \in DOMAIN Rows(rsTrace[i][3]) =>
                       Document(rsEmail[2])[k] = Str(Rows(rsTrace[i][3])[k])

\* C25: the reset workflow never returns an error: whatever the terminate,
\* backup and clear steps gave, the clear and the launch are attempted and
\* the workflow returns Ok with its message.
C25_AlwaysLaunches ==
    /\ rsPc # "failed"
    /\ rsResult # None =>
        /\ rsResult[1] = "Ok"
        /\ rsPc = "done"
        /\ RsSteps("clear") # {}
        /\ RsSteps("launch") # {}

\* A finished run in which nothing was killed and the backup, the clear and
\* the launch all failed.
C25_Witness ==
    /\ rsPc = "done"
    /\ rsResult[1] = "Ok"
    /\ rsTrace[2] = <<"terminate", "not running">>
    /\ Has(rsTrace, <<"backup", "failed">>)
    /\ \E i \in RsSteps("clear") : rsTrace[i][2] = "failed"
    /\ Has(rsTrace, <<"launch", "start failed">>)

\* C26: the message of a finished reset workflow names a backup identifier
\* exactly when the backup of this run returned Ok for it, and then the file
\* of that identifier holds a record of it; otherwise the message says the
\* backup was skipped.
C26_MessageNamesWrittenBackup ==
    rsPc = "done" =>
        IF Has(rsTrace, <<"backup", "ok">>)
        THEN /\ rsEmail # None
             /\ rsResult[2][2] \in {"backed up (created): " \o rsEmail[2],
                                    "backed up (updated): " \o rsEmail[2]}
             /\ BackupFile(rsEmail[2]) \in DOMAIN files
             /\ files[BackupFile(rsEmail[2])][1] = "Json"
             /\ Document(rsEmail[2])["account_email"] = Str(rsEmail[2])
        ELSE rsResult[2][2] = SkippedText

\* A finished run that found a@x in the auth info and whose backup failed
\* while writing the file: the message says the backup was skipped.
C26_Witness ==
    /\ rsPc = "done"
    /\ rsEmail = Some("a@x")
    /\ Has(rsTrace, <<"backup", "failed">>)
    /\ BackupFile("a@x") \in DOMAIN files
    /\ files[BackupFile("a@x")] = Truncated
    /\ rsResult[2][2] = SkippedText

\* C27: the message of a finished reset workflow says that the account data
\* was cleared only if the clear step succeeded.
C27_ClearedOnlyIfCleared ==
    rsPc = "done" =>
        (rsResult[2][3] = "cleared account data" =>
            \E i \in RsSteps("clear") : rsTrace[i][2] = "ok")

\* The strategies of a launch in their fixed order, each with whether it can
\* be attempted and whether its spawn succeeds.
Strategy(kind, i, usable, spawn_ok) ==
    [id |-> <<kind, i>>, usable |-> usable, spawn_ok |-> spawn_ok]

AllStrategies(env) ==
    (IF env.custom # None
     THEN <<Strategy("custom", 1, env.custom[2].valid, env.custom[2].spawn_ok)>>
     ELSE <<>>)
    \o [i \in 1..MaxCands |->
           Strategy("path", i, env.paths[i].exists, env.paths[i].spawn_ok)]
    \o [i \in 1..Len(Commands) |-> Strategy("command", i, TRUE, env.commands[i])]

\* The usable strategies, in order.
Usable(env) == SelectSeq(AllStrategies(env), LAMBDA x : x.usable)

Ids(strategies) == [i \in DOMAIN strategies |-> strategies[i].id]

\* The usable strategies after the configured executable, in order.
Fallbacks(env) == SelectSeq(Usable(env), LAMBDA x : x.id[1] # "custom")

CustomValid(env) == env.custom # None /\ env.custom[2].valid

\* C28 (as amended): launch returns an error either when the configured
\* executable is valid and fails to start, no fallback being tried, or when
\* no valid executable is configured and every candidate path that exists and
\* every bare command has been attempted, in order, and has failed.
C28_ErrorAfterFallbacks ==
    (fnOut # None /\ ~fnOut[2].ok) =>
        IF CustomValid(fnIn)
        THEN fnOut[2].attempts = <<<<"custom", 1>>>>
        ELSE /\ fnOut[2].attempts = Ids(Fallbacks(fnIn))
             /\ \A i \in DOMAIN Fallbacks(fnIn) : ~Fallbacks(fnIn)[i].spawn_ok

\* An error after one candidate path and both commands failed to start.
C28_Witness ==
    /\ fnOut # None
    /\ ~fnOut[2].ok
    /\ fnIn.custom = Some([valid |-> FALSE, spawn_ok |-> TRUE])
    /\ fnOut[2].attempts = << <<"path", 2>>, <<"command", 1>>, <<"command", 2>> >>

\* C28 (as stated): launch returns an error only after every strategy that
\* can be attempted, the valid configured executable included, has been
\* attempted.
C28_ErrorAfterEveryStrategy ==
    (fnOut # None /\ ~fnOut[2].ok) => fnOut[2].attempts = Ids(Usable(fnIn))

\* C29: launch attempts the usable strategies in their fixed order, stops at
\* the first that starts, and so starts at most one process.
C29_OrderedFirstSuccess ==
    fnOut # None =>
        LET n == Len(fnOut[2].attempts)
        IN  /\ n <= Len(Usable(fnIn))
            /\ fnOut[2].attempts = SubSeq(Ids(Usable(fnIn)), 1, n)
            /\ \A i \in 1..n : Usable(fnIn)[i].spawn_ok <=> (fnOut[2].ok /\ i = n)
            /\ Cardinality({i \in 1..n : Usable(fnIn)[i].spawn_ok}) <= 1

\* The first candidate path fails, the second starts, and the commands, which
\* would start too, are not attempted.
C29_Witness ==
    /\ fnOut # None
    /\ fnOut[2].ok
    /\ fnOut[2].attempts = << <<"path", 1>>, <<"path", 2>> >>
    /\ fnIn.commands[1]

\* A data path is configured and its state.vscdb exists and is a file.
ConfiguredValid(env) ==
    /\ env.config \notin {ReadError, None}
    /\ env.disk[env.config[2]] = "file"

\* C30: store-path resolution returns the configured data path whenever one
\* is configured and valid, and the detected path (or none) otherwise; a
\* configured path whose state.vscdb is missing or not a file never wins.
C30_ConfiguredValidWins ==
    fnOut # None =>
        /\ ConfiguredValid(fnIn) => fnOut[2] = Some(JoinDb(fnIn.config[2]))
        /\ ~ConfiguredValid(fnIn) =>
               fnOut[2] = IF fnIn.detected = None THEN None
                          ELSE Some(JoinDb(fnIn.detected[2]))

\* A configured path whose state.vscdb is a directory loses to the detected
\* path.
C30_Witness ==
    /\ fnOut # None
    /\ fnIn.config = Some("/c2")
    /\ fnIn.disk["/c2"] = "dir"
    /\ fnIn.detected = Some("/auto")
    /\ fnOut[2] = Some("/auto/state.vscdb")

\* The snapshot of the n-th version of the store.
SnapOf(n) == get_complete_data(Version(n))

\* Snapshot a is of an earlier version of the store than snapshot b, so it
\* was read from a state the store had before the state in b.
ReadBefore(a, b) ==
    \E m \in Versions, n \in Versions : m < n /\ a = SnapOf(m) /\ b = SnapOf(n)

\* The store holds its last version: it has stopped changing.
StoreSettled == store = Version(MaxWrites + 1)

\* Loop t completes the Ok arm of a tick in this step.
Updates(t) == pc[t] = "update" /\ pc'[t] = "tick"

\* C31: once the store has stopped changing, a tick that reads it stores its
\* content (after at most that one emitting tick), and from then on the
\* stored snapshot stays equal to the store's content and no tick emits a
\* change event.
C31_SelfCorrects ==
    [][StoreSettled =>
          \A t \in Loops : Updates(t) =>
              /\ new_data[t] = get_complete_data(store) =>
                     last_data' = get_complete_data(store)
              /\ last_data = get_complete_data(store) =>
                     /\ last_data' = last_data
                     /\ tickLog'.event = None]_vars

\* C32: while the monitor is Stopped (stop_monitoring has returned and
\* start_monitoring has not been called since), no loop starts a snapshot
\* read and no tick emits a change event.
C32_NoTickAfterStop ==
    [][~is_running =>
          \A t \in Loops :
              /\ ~(pc[t] = "read" /\ pc'[t] # "read")
              /\ Updates(t) => tickLog'.event = None]_vars

\* C34: every emitted change event has an oldData that was read before its
\* newData, and the stored snapshot is never replaced by one read earlier.
C34_NeverBackwards ==
    /\ [](tickLog.event # None => ReadBefore(tickLog.event[3], tickLog.event[2]))
    /\ [][(last_data # None /\ last_data' # last_data)
              => ReadBefore(last_data, last_data')]_vars

\* C35: stopping and restarting keeps the stored snapshot: from the stop to
\* the restart it is not replaced, so the first tick after the restart diffs
\* against the last snapshot stored before the stop and is the one that
\* reports a change made while the monitor was Stopped.
C35_SnapshotKeptWhileStopped ==
    [][(~is_running \/ is_running' # is_running) => last_data' = last_data]_vars

\* C33: in every configuration in which get_antigravity_db_path resolves a
\* store path, a valid user-configured data path included, the path the
\* monitor snapshots is that path.
C33_MonitorWatchesStorePath ==
    (fnOut # None /\ fnOut[2][1] # None) => fnOut[2][1] = Some(fnOut[2][2])

\* C36: what is_database_monitoring_running returns is whether the monitor
\* is Running, after any sequence of start and stop commands.
C36_StatusIsRunning ==
    [][fnOut' # fnOut => fnOut' = Some(is_running')]_vars

\* C37: a restore returns success only if the allow-listed field it writes
\* back (the agent-state field, when the backup record holds it as a string)
\* was actually written: after a successful restore the store holds the
\* record's value for it.
C37_SuccessMeansWritten ==
    RestoreDone =>
        LET doc == Document(opLog.email)
        IN  (AGENT_STATE \in DOMAIN doc /\ doc[AGENT_STATE][1] = "String") =>
                /\ AGENT_STATE \in DOMAIN Rows(store)
                /\ Rows(store)[AGENT_STATE] = doc[AGENT_STATE][2]

\* C38: a restore changes only allow-listed keys (the auth-status key is one
\* of them): every other row of the store is there with the same value after
\* the restore as before it, whether the restore succeeded or failed.
C38_OtherRowsKept ==
    opLog.kind = "restore" =>
        \A k \in (DOMAIN Rows(opLog.pre) \cup DOMAIN Rows(store)) \ AllKeySet :
            /\ k \in DOMAIN Rows(opLog.pre)
            /\ k \in DOMAIN Rows(store)
            /\ Rows(store)[k] = Rows(opLog.pre)[k]

\* A restore that wrote the agent-state row and deleted the auth-status row
\* of a store that also holds a row outside the allow list.
C38_Witness ==
    /\ RestoreDone
    /\ opLog.count = 1
    /\ AUTH_STATUS \in DOMAIN Rows(opLog.pre)
    /\ AUTH_STATUS \notin DOMAIN Rows(store)
    /\ TARGET_STORAGE_MARKER \in DOMAIN Rows(opLog.pre)
    /\ TARGET_STORAGE_MARKER \in DOMAIN Rows(store)

\* C39: a backup that returns an error leaves every record of the backup
\* directory as it was: an existing record keeps its content and no record is
\* created.
C39_FailedBackupKeepsRecords ==
    [][(opLog'.kind = "backup" /\ ~opLog'.ok) => files' = files]_vars

\* C40: the backup record the reset workflow writes under the identifier E it
\* read from the auth info holds, for each allow-listed field it has, the
\* value the store had when E was read, under every interleaving with a
\* switch workflow: never the state the switch restored for another identity.
C40_RecordHoldsOwnState ==
    (rsBackup # None /\ lastBackup["a@x"] # None) =>
        LET doc == lastBackup["a@x"][2][1]
            atAuth == Rows(rsTrace[3][3])
        IN  \A k \in AllKeySet \cap DOMAIN doc :
                /\ k \in DOMAIN atAuth
                /\ doc[k] = Str(atAuth[k])

====
